---- MODULE Spec2Model ----
(***************************************************************************)
(* The DSPy ingestion pipeline of run_with_dspy (src/backends/dspy.py) and *)
(* the Markdown document model (src/models/markdown.py).                   *)
(*                                                                         *)
(* A text is a sequence of lexical units.  One unit is one of: a space,    *)
(* a newline, a run of three backticks, a JSON punctuation character, a    *)
(* complete JSON string literal (quotes included), a number literal, a     *)
(* JSON keyword, or a word of prose.  str.strip, str.split, str.startswith *)
(* and json.loads are modelled on these sequences.                         *)
(***************************************************************************)
EXTENDS Integers, Sequences, FiniteSets, TLC

VARIABLES
    GenerateMarkdown_doc,  \* GenerateMarkdown.__doc__ (class attribute, process-wide)
    settings_lm,           \* dspy.settings.lm (process-wide, set by dspy.configure)
    pc,                    \* position of each invocation in run_with_dspy
    generator,             \* per invocation: instructions captured by MarkdownGenerator()
    sent,                  \* per invocation: <<instructions, lm>> the LLM call was made with
    result,                \* per invocation: result.markdown_json
    markdown_json_str,     \* per invocation: local markdown_json_str
    markdown_dict,         \* per invocation: local markdown_dict
    document,              \* per invocation: local document
    stdout,                \* per invocation: what typer.echo wrote to standard output
    stderr,                \* per invocation: what typer.echo(err=True) wrote
    exit_code,             \* per invocation: process exit code
    stages,                \* per invocation: the stages that ran, in order
    origin                 \* per invocation: where its LLM text came from

vars == <<GenerateMarkdown_doc, settings_lm, pc, generator, sent, result,
          markdown_json_str, markdown_dict, document, stdout, stderr,
          exit_code, stages, origin>>

(***************************************************************************)
(* Bounds of the model.                                                    *)
(***************************************************************************)
MaxItems == 2      \* longest contents list among the LLM texts
MaxDepth == 2      \* deepest nesting of headings among the LLM texts

(***************************************************************************)
(* Lexical units.                                                          *)
(***************************************************************************)
SP == " "
NL == "\n"
FENCE == "<fence>"   \* stands for three backticks (a string here cannot hold one)

Whitespace == {SP, NL}

\* The Python str values that occur, and the JSON string literal of each.
Strs == {"content", "level", "text", "children", "contents", "extra",
         "x", "y", "t", "2", "abc", "a\nb"}

JsonQuote(s) == IF s = "a\nb" THEN "\"a\\nb\"" ELSE "\"" \o s \o "\""

StringLits == {JsonQuote(s) : s \in Strs}

StrOf(lit) == CHOOSE s \in Strs : JsonQuote(s) = lit

\* Number literals: integers, and floats written with a fraction.
IntLits == {"0", "1", "2", "3", "7"}
FloatLits == {"2.0", "2.5"}

IntOf(lit) ==
    CASE lit = "0" -> 0 [] lit = "1" -> 1 [] lit = "2" -> 2 [] lit = "3" -> 3 [] lit = "7" -> 7

IntLit(n) == CHOOSE lit \in IntLits : IntOf(lit) = n

\* Literals json.loads accepts although RFC 8259 has no such value.
ConstantLits == {"NaN", "Infinity", "-Infinity"}

(***************************************************************************)
(* Python values, as <<type, payload>>.                                    *)
(***************************************************************************)
PyStr(s) == <<"str", s>>
PyInt(n) == <<"int", n>>
PyFloat(f) == <<"float", f>>
PyBool(b) == <<"bool", b>>
PyNone == <<"none", "None">>
PyList(items) == <<"list", items>>
PyDict(pairs) == <<"dict", pairs>>

TypeOf(v) == v[1]
Payload(v) == v[2]

(***************************************************************************)
(* Evaluation note: a value that is used more than once is bound by a      *)
(* one-element set, {e(x) : x \in {v}}, so that it is computed once.       *)
(***************************************************************************)
Only(S) == CHOOSE x \in S : TRUE

(***************************************************************************)
(* str.strip(), str.split, str.join and str.startswith on a fence marker   *)
(***************************************************************************)
Solid(s) == {i \in 1..Len(s) : s[i] \notin Whitespace}

strip(s) ==
    IF Solid(s) = {} THEN <<>>
    ELSE SubSeq(s, CHOOSE i \in Solid(s) : \A j \in Solid(s) : i <= j,
                   CHOOSE i \in Solid(s) : \A j \in Solid(s) : j <= i)

startswith_fence(s) == s # <<>> /\ Head(s) = FENCE

\* split: one line more than there are newlines; a line may be empty.
Newlines(s) == {i \in 1..Len(s) : s[i] = NL}

\* The position of the k-th newline; 0 before the first, Len(s) + 1 after the last.
NewlineAt(s, k) ==
    IF k = 0 THEN 0
    ELSE IF k > Cardinality(Newlines(s)) THEN Len(s) + 1
    ELSE CHOOSE i \in Newlines(s) : Cardinality({j \in Newlines(s) : j < i}) = k - 1

split(s) ==
    [k \in 1..(Cardinality(Newlines(s)) + 1) |->
        SubSeq(s, NewlineAt(s, k - 1) + 1, NewlineAt(s, k) - 1)]

RECURSIVE join(_)
join(lines) ==
    IF lines = <<>> THEN <<>>
    ELSE IF Len(lines) = 1 THEN lines[1]
    ELSE lines[1] \o <<NL>> \o join(Tail(lines))

\* The condition of the generator expression (line 76); it does not read i.
KeepLine(line) == ~startswith_fence(strip(line))

\* Variant of StripFences: only the opening fence line is dropped.
StripFencesOpeningOnly(raw) ==
    Only({IF startswith_fence(s)
          THEN Only({join(Tail(lines)) : lines \in {split(s)}})
          ELSE s
          : s \in {strip(raw)}})

\* Lines 67-77: the text handed to json.loads.
StripFences(raw) ==
    Only({IF startswith_fence(s)
          THEN Only({join(SelectSeq(lines, KeepLine)) : lines \in {split(s)}})
          ELSE s
          : s \in {strip(raw)}})

(***************************************************************************)
(* json.loads.  A scan returns <<"ok", value, end>>, <<"stop", idx>>       *)
(* (StopIteration) or <<"err", msg, idx>> (JSONDecodeError); indexes are   *)
(* 1-based here and reported 0-based, as Python reports them.              *)
(* The parameter constants is the set of non-RFC literals the scanner      *)
(* accepts: json.loads accepts NaN, Infinity and -Infinity.                *)
(***************************************************************************)
\* The first index from i on that holds no whitespace (Len(s) + 1 when none does).
skip_ws(s, i) ==
    IF i > Len(s) THEN i
    ELSE CHOOSE j \in i..(Len(s) + 1) :
            /\ j = Len(s) + 1 \/ s[j] \notin Whitespace
            /\ \A k \in i..(j - 1) : s[k] \in Whitespace

At(s, i) == IF i <= Len(s) THEN s[i] ELSE ""

\* dict(pairs): a repeated key keeps its first position and takes the last value.
put(pairs, key, val) ==
    IF \E i \in 1..Len(pairs) : pairs[i][1] = key
    THEN [i \in 1..Len(pairs) |-> IF pairs[i][1] = key THEN <<key, val>> ELSE pairs[i]]
    ELSE Append(pairs, <<key, val>>)

ConstantValue(lit) ==
    CASE lit = "NaN" -> PyFloat("nan")
      [] lit = "Infinity" -> PyFloat("inf")
      [] lit = "-Infinity" -> PyFloat("-inf")

RECURSIVE scan_once(_, _, _), ObjectPairs(_, _, _, _), ArrayItems(_, _, _, _)

JSONObject(s, i, constants) ==
    IF At(s, skip_ws(s, i)) = "}" THEN <<"ok", PyDict(<<>>), skip_ws(s, i) + 1>>
    ELSE IF At(s, skip_ws(s, i)) \notin StringLits
    THEN <<"err", "Expecting property name enclosed in double quotes", skip_ws(s, i)>>
    ELSE ObjectPairs(s, skip_ws(s, i), <<>>, constants)

JSONArray(s, i, constants) ==
    IF At(s, skip_ws(s, i)) = "]" THEN <<"ok", PyList(<<>>), skip_ws(s, i) + 1>>
    ELSE ArrayItems(s, skip_ws(s, i), <<>>, constants)

scan_once(s, i, constants) ==
    CASE At(s, i) \in StringLits -> <<"ok", PyStr(StrOf(At(s, i))), i + 1>>
      [] At(s, i) = "{" -> JSONObject(s, i + 1, constants)
      [] At(s, i) = "[" -> JSONArray(s, i + 1, constants)
      [] At(s, i) = "null" -> <<"ok", PyNone, i + 1>>
      [] At(s, i) = "true" -> <<"ok", PyBool(TRUE), i + 1>>
      [] At(s, i) = "false" -> <<"ok", PyBool(FALSE), i + 1>>
      [] At(s, i) \in IntLits -> <<"ok", PyInt(IntOf(At(s, i))), i + 1>>
      [] At(s, i) \in FloatLits -> <<"ok", PyFloat(At(s, i)), i + 1>>
      [] At(s, i) \in constants -> <<"ok", ConstantValue(At(s, i)), i + 1>>
      [] OTHER -> <<"stop", i>>

\* After a value of an object: the closing brace, or a comma and the next key.
AfterMember(s, e, pairs, constants) ==
    IF At(s, e) = "}" THEN <<"ok", PyDict(pairs), e + 1>>
    ELSE IF At(s, e) # "," THEN <<"err", "Expecting ',' delimiter", e>>
    ELSE IF At(s, skip_ws(s, e + 1)) \notin StringLits
    THEN <<"err", "Expecting property name enclosed in double quotes", skip_ws(s, e + 1)>>
    ELSE ObjectPairs(s, skip_ws(s, e + 1), pairs, constants)

\* A member of an object, s[j] being its key.
ObjectPairs(s, j, pairs, constants) ==
    IF At(s, skip_ws(s, j + 1)) # ":"
    THEN <<"err", "Expecting ':' delimiter", skip_ws(s, j + 1)>>
    ELSE Only({IF r[1] = "stop" THEN <<"err", "Expecting value", r[2]>>
               ELSE IF r[1] = "err" THEN r
               ELSE AfterMember(s, skip_ws(s, r[3]), put(pairs, StrOf(s[j]), r[2]), constants)
               : r \in {scan_once(s, skip_ws(s, skip_ws(s, j + 1) + 1), constants)}})

\* The items of an array, s[j] being where the next one starts.
ArrayItems(s, j, items, constants) ==
    Only({IF r[1] = "stop" THEN <<"err", "Expecting value", r[2]>>
          ELSE IF r[1] = "err" THEN r
          ELSE IF At(s, skip_ws(s, r[3])) = "]"
          THEN <<"ok", PyList(Append(items, r[2])), skip_ws(s, r[3]) + 1>>
          ELSE IF At(s, skip_ws(s, r[3])) # ","
          THEN <<"err", "Expecting ',' delimiter", skip_ws(s, r[3])>>
          ELSE ArrayItems(s, skip_ws(s, skip_ws(s, r[3]) + 1), Append(items, r[2]), constants)
          : r \in {scan_once(s, j, constants)}})

\* JSONDecoder.decode: <<"ok", value>> or <<"JSONDecodeError", msg, pos>>.
decode(s, constants) ==
    Only({IF r[1] = "stop" THEN <<"JSONDecodeError", "Expecting value", r[2] - 1>>
          ELSE IF r[1] = "err" THEN <<"JSONDecodeError", r[2], r[3] - 1>>
          ELSE IF skip_ws(s, r[3]) <= Len(s)
          THEN <<"JSONDecodeError", "Extra data", skip_ws(s, r[3]) - 1>>
          ELSE <<"ok", r[2]>>
          : r \in {scan_once(s, skip_ws(s, 1), constants)}})

json_loads(s) == Only({decode(text, ConstantLits) : text \in {s}})

\* The grammar of RFC 8259, which has no NaN or Infinity.
WellFormedJSON(s) == Only({decode(text, {})[1] = "ok" : text \in {s}})

(***************************************************************************)
(* The document model (pydantic BaseModel classes, default configuration:  *)
(* lax type conversion, extra fields ignored, unions resolved in smart     *)
(* mode).  A validation returns <<"ok", instance, exactness, fields_set>>  *)
(* or <<"err", errors>>, errors a set of <<location, error type>>.         *)
(* Instances: <<"Content", content>>, <<"Heading", level, text, children>> *)
(* and <<"MarkdownDocument", contents>>.                                   *)
(***************************************************************************)
Lax == 0
Strict == 1
Exact == 2

Min(a, b) == IF a <= b THEN a ELSE b

Has(pairs, key) == \E i \in 1..Len(pairs) : pairs[i][1] = key

Get(pairs, key) == pairs[CHOOSE i \in 1..Len(pairs) : pairs[i][1] = key][2]

\* A str field: only a str is accepted (no conversion from numbers).
ValidateStr(pairs, key, loc) ==
    IF ~Has(pairs, key) THEN <<"err", {<<Append(loc, key), "missing">>}>>
    ELSE IF TypeOf(Get(pairs, key)) # "str"
    THEN <<"err", {<<Append(loc, key), "string_type">>}>>
    ELSE <<"ok", Payload(Get(pairs, key)), Exact>>

\* An int field in lax mode: bool, whole float and numeric str are converted.
StrAsInt(str) == IF \E lit \in IntLits : lit = str THEN <<"ok", IntOf(str)>> ELSE <<"err">>

FloatAsInt(f) ==
    CASE f = "2.0" -> <<"ok", 2>>
      [] f \in {"nan", "inf", "-inf"} -> <<"err", "finite_number">>
      [] OTHER -> <<"err", "int_from_float">>

ValidateInt(pairs, key, loc) ==
    IF ~Has(pairs, key) THEN <<"err", {<<Append(loc, key), "missing">>}>>
    ELSE LET v == Get(pairs, key)
         IN  CASE TypeOf(v) = "int" -> <<"ok", Payload(v), Exact>>
               [] TypeOf(v) = "bool" -> <<"ok", IF Payload(v) THEN 1 ELSE 0, Lax>>
               [] TypeOf(v) = "float" ->
                    IF FloatAsInt(Payload(v))[1] = "ok"
                    THEN <<"ok", FloatAsInt(Payload(v))[2], Lax>>
                    ELSE <<"err", {<<Append(loc, key), FloatAsInt(Payload(v))[2]>>}>>
               [] TypeOf(v) = "str" ->
                    IF StrAsInt(Payload(v))[1] = "ok"
                    THEN <<"ok", StrAsInt(Payload(v))[2], Lax>>
                    ELSE <<"err", {<<Append(loc, key), "int_parsing">>}>>
               [] OTHER -> <<"err", {<<Append(loc, key), "int_type">>}>>

Errors(r) == IF r[1] = "err" THEN r[2] ELSE {}

\* class Content: one required str field; other keys of the input are ignored.
ValidateContent(v, loc) ==
    IF TypeOf(v) # "dict" THEN <<"err", {<<loc, "model_type">>}>>
    ELSE Only({IF c[1] = "err" THEN c
               ELSE <<"ok", <<"Content", c[2]>>, Min(Strict, c[3]), 1>>
               : c \in {ValidateStr(Payload(v), "content", loc)}})

RECURSIVE ValidateNode(_, _), ValidateList(_, _, _), ValidateItems(_, _, _)

\* class Heading: level, text, children, all required; other keys are ignored.
ValidateHeading(v, loc) ==
    IF TypeOf(v) # "dict" THEN <<"err", {<<loc, "model_type">>}>>
    ELSE Only({IF Errors(level) \cup Errors(text) \cup Errors(children) # {}
               THEN <<"err", Errors(level) \cup Errors(text) \cup Errors(children)>>
               ELSE <<"ok", <<"Heading", level[2], text[2], children[2]>>,
                      Min(Strict, Min(level[3], Min(text[3], children[3]))),
                      3 + children[4]>>
               : level \in {ValidateInt(Payload(v), "level", loc)},
                 text \in {ValidateStr(Payload(v), "text", loc)},
                 children \in {ValidateList(Payload(v), "children", loc)}})

\* Between two members that both validate: more fields set wins, then the more
\* exact one, then the first.
BestMatch(first, second) ==
    IF first[4] # second[4] THEN (IF first[4] < second[4] THEN second ELSE first)
    ELSE IF first[3] < second[3] THEN second ELSE first

\* Variant of ValidateNode: the member named by the first key of the object
\* is tried first and taken when it validates.
ValidateNodeByFirstKey(v, loc) ==
    Only({IF asContent[1] = "err" /\ asHeading[1] = "err"
          THEN <<"err", asContent[2] \cup asHeading[2]>>
          ELSE IF asHeading[1] = "err" THEN asContent
          ELSE IF asContent[1] = "err" THEN asHeading
          ELSE IF Payload(v)[1][1] = "content" THEN asContent ELSE asHeading
          : asContent \in {ValidateContent(v, Append(loc, "Content"))},
            asHeading \in {ValidateHeading(v, Append(loc, "Heading"))}})

\* Union[Content, Heading] in smart mode: every member is tried; when none
\* validates, the errors of all of them are kept.
ValidateNode(v, loc) ==
    Only({IF asContent[1] = "err" /\ asHeading[1] = "err"
          THEN <<"err", asContent[2] \cup asHeading[2]>>
          ELSE IF asHeading[1] = "err" THEN asContent
          ELSE IF asContent[1] = "err" THEN asHeading
          ELSE BestMatch(asContent, asHeading)
          : asContent \in {ValidateContent(v, Append(loc, "Content"))},
            asHeading \in {ValidateHeading(v, Append(loc, "Heading"))}})

\* Variant of ValidateItems: each validated item is put after the ones that
\* follow it.
RECURSIVE ValidateItemsNewestLast(_, _, _)
ValidateItemsNewestLast(items, loc, i) ==
    IF i > Len(items) THEN <<<<>>, {}, Exact, 0>>
    ELSE Only({IF r[1] = "err" THEN <<<<>>, r[2] \cup rest[2], Lax, 0>>
               ELSE <<rest[1] \o <<r[2]>>, rest[2], Min(r[3], rest[3]), r[4] + rest[4]>>
               : r \in {ValidateNode(items[i], Append(loc, i - 1))},
                 rest \in {ValidateItemsNewestLast(items, loc, i + 1)}})

\* The items of a list, from index i on: <<instances, errors, exactness, fields_set>>.
ValidateItems(items, loc, i) ==
    IF i > Len(items) THEN <<<<>>, {}, Exact, 0>>
    ELSE Only({IF r[1] = "err" THEN <<<<>>, r[2] \cup rest[2], Lax, 0>>
               ELSE <<(<<r[2]>>) \o rest[1], rest[2], Min(r[3], rest[3]), r[4] + rest[4]>>
               : r \in {ValidateNode(items[i], Append(loc, i - 1))},
                 rest \in {ValidateItems(items, loc, i + 1)}})

\* Variant of ValidateList: an absent list counts as an empty one.
ValidateListOrEmpty(pairs, key, loc) ==
    IF ~Has(pairs, key) THEN <<"ok", <<>>, Exact, 0>>
    ELSE IF TypeOf(Get(pairs, key)) # "list"
    THEN <<"err", {<<Append(loc, key), "list_type">>}>>
    ELSE Only({Only({IF r[2] # {} THEN <<"err", r[2]>> ELSE <<"ok", r[1], r[3], r[4]>>
                     : r \in {ValidateItems(items, field, 1)}})
               : items \in {Payload(Get(pairs, key))}, field \in {Append(loc, key)}})

\* A list[Union[Content, Heading]] field: required, and a list.
ValidateList(pairs, key, loc) ==
    IF ~Has(pairs, key) THEN <<"err", {<<Append(loc, key), "missing">>}>>
    ELSE IF TypeOf(Get(pairs, key)) # "list"
    THEN <<"err", {<<Append(loc, key), "list_type">>}>>
    ELSE Only({Only({IF r[2] # {} THEN <<"err", r[2]>> ELSE <<"ok", r[1], r[3], r[4]>>
                     : r \in {ValidateItems(items, field, 1)}})
               : items \in {Payload(Get(pairs, key))}, field \in {Append(loc, key)}})

\* MarkdownDocument(**markdown_dict): <<"ok", document>>, <<"TypeError", ...>>
\* when the value is no mapping, or <<"ValidationError", errors>>.
MarkdownDocument(value) ==
    Only({IF TypeOf(v) # "dict" THEN <<"TypeError", "argument after ** must be a mapping">>
          ELSE Only({IF contents[1] = "err" THEN <<"ValidationError", contents[2]>>
                     ELSE <<"ok", <<"MarkdownDocument", contents[2]>>>>
                     : contents \in {ValidateList(Payload(v), "contents", <<>>)}})
          : v \in {value}})

(***************************************************************************)
(* document.model_dump_json(indent=2, ensure_ascii=False): fields in the   *)
(* order the class declares them, two spaces per nesting level, an empty   *)
(* list on one line.                                                       *)
(***************************************************************************)
RECURSIVE Indent(_)
Indent(n) == IF n = 0 THEN <<>> ELSE <<SP, SP>> \o Indent(n - 1)

Field(name, depth) == Indent(depth) \o <<JsonQuote(name), ":", SP>>

RECURSIVE DumpNode(_, _), DumpItems(_, _, _)

DumpList(items, depth) ==
    IF items = <<>> THEN <<"[", "]">>
    ELSE <<"[", NL>> \o DumpItems(items, depth + 1, 1) \o <<NL>> \o Indent(depth) \o <<"]">>

DumpItems(items, depth, i) ==
    Indent(depth) \o DumpNode(items[i], depth)
        \o (IF i = Len(items) THEN <<>> ELSE <<",", NL>> \o DumpItems(items, depth, i + 1))

DumpContent(node, depth) ==
    <<"{", NL>> \o Field("content", depth + 1) \o <<JsonQuote(node[2]), NL>>
        \o Indent(depth) \o <<"}">>

\* Variant of DumpHeading: an empty children list is left out.
DumpHeadingOmitEmpty(node, depth) ==
    <<"{", NL>> \o Field("level", depth + 1) \o <<IntLit(node[2]), ",", NL>>
        \o Field("text", depth + 1) \o <<JsonQuote(node[3])>>
        \o (IF node[4] = <<>> THEN <<>>
            ELSE <<",", NL>> \o Field("children", depth + 1) \o DumpList(node[4], depth + 1))
        \o <<NL>> \o Indent(depth) \o <<"}">>

DumpHeading(node, depth) ==
    <<"{", NL>> \o Field("level", depth + 1) \o <<IntLit(node[2]), ",", NL>>
        \o Field("text", depth + 1) \o <<JsonQuote(node[3]), ",", NL>>
        \o Field("children", depth + 1) \o DumpList(node[4], depth + 1) \o <<NL>>
        \o Indent(depth) \o <<"}">>

DumpNode(node, depth) ==
    IF node[1] = "Content" THEN DumpContent(node, depth) ELSE DumpHeading(node, depth)

model_dump_json(doc) ==
    <<"{", NL>> \o Field("contents", 1) \o DumpList(doc[2], 1) \o <<NL, "}">>

(***************************************************************************)
(* The texts the LLM may answer with (result.markdown_json, line 64).      *)
(* Payloads are JSON values written compactly, keys in the order given.    *)
(***************************************************************************)
RECURSIVE Render(_), RenderItems(_, _), RenderPairs(_, _)

Render(v) ==
    CASE TypeOf(v) = "str" -> <<JsonQuote(Payload(v))>>
      [] TypeOf(v) = "int" -> <<IntLit(Payload(v))>>
      [] TypeOf(v) = "float" ->
            <<CASE Payload(v) = "nan" -> "NaN" [] Payload(v) = "inf" -> "Infinity"
                [] Payload(v) = "-inf" -> "-Infinity" [] OTHER -> Payload(v)>>
      [] TypeOf(v) = "bool" -> <<IF Payload(v) THEN "true" ELSE "false">>
      [] TypeOf(v) = "none" -> <<"null">>
      [] TypeOf(v) = "list" -> <<"[">> \o RenderItems(Payload(v), 1) \o <<"]">>
      [] TypeOf(v) = "dict" -> <<"{">> \o RenderPairs(Payload(v), 1) \o <<"}">>

RenderItems(items, i) ==
    IF i > Len(items) THEN <<>>
    ELSE Render(items[i]) \o (IF i = Len(items) THEN <<>> ELSE <<",", SP>>)
            \o RenderItems(items, i + 1)

RenderPairs(pairs, i) ==
    IF i > Len(pairs) THEN <<>>
    ELSE <<JsonQuote(pairs[i][1]), ":", SP>> \o Render(pairs[i][2])
            \o (IF i = Len(pairs) THEN <<>> ELSE <<",", SP>>)
            \o RenderPairs(pairs, i + 1)

ContentObj(c) == PyDict(<< <<"content", c>> >>)

HeadingObj(level, text, children) ==
    PyDict(<< <<"level", level>>, <<"text", text>>, <<"children", children>> >>)

\* A heading nested d deep under headings, each with a leading paragraph.
RECURSIVE Chain(_)
Chain(d) ==
    HeadingObj(PyInt(2), PyStr("t"),
               PyList(IF d = 1 THEN <<ContentObj(PyStr("x"))>>
                      ELSE <<ContentObj(PyStr("x")), Chain(d - 1)>>))

\* Nodes that conform to the wire shape of the document model.
ConformingNodes ==
    {ContentObj(PyStr("x")), ContentObj(PyStr("a\nb")),
     HeadingObj(PyInt(3), PyStr("y"), PyList(<<>>)),
     PyDict(<< <<"children", PyList(<<ContentObj(PyStr("y"))>>)>>,
               <<"text", PyStr("t")>>, <<"level", PyInt(7)>> >>)}
    \cup {Chain(d) : d \in 1..MaxDepth}

\* Nodes that deviate from it in one way.
DeviantNodes ==
    {PyDict(<< <<"content", PyStr("x")>>, <<"extra", PyStr("y")>> >>),
     PyDict(<< <<"content", PyStr("x")>>, <<"level", PyInt(2)>>, <<"text", PyStr("t")>>,
               <<"children", PyList(<<>>)>> >>),
     PyDict(<< <<"level", PyInt(2)>>, <<"content", PyStr("x")>> >>),
     PyDict(<< <<"level", PyInt(2)>>, <<"text", PyStr("t")>> >>),
     PyDict(<< <<"level", PyInt(2)>>, <<"text", PyStr("t")>>, <<"children", PyList(<<>>)>>,
               <<"extra", PyNone>> >>),
     HeadingObj(PyStr("2"), PyStr("t"), PyList(<<>>)),
     HeadingObj(PyStr("abc"), PyStr("t"), PyList(<<>>)),
     HeadingObj(PyFloat("2.0"), PyStr("t"), PyList(<<>>)),
     HeadingObj(PyFloat("2.5"), PyStr("t"), PyList(<<>>)),
     HeadingObj(PyBool(TRUE), PyStr("t"), PyList(<<>>)),
     HeadingObj(PyNone, PyStr("t"), PyList(<<>>)),
     HeadingObj(PyInt(2), PyInt(3), PyList(<<>>)),
     HeadingObj(PyInt(2), PyStr("t"), ContentObj(PyStr("x"))),
     HeadingObj(PyInt(2), PyStr("t"),
                PyList(<<PyDict(<< <<"level", PyInt(3)>>, <<"text", PyStr("t")>> >>)>>)),
     ContentObj(PyInt(2)),
     PyDict(<<>>),
     PyStr("x")}

SeqsUpTo(S, n) == UNION {[1..k -> S] : k \in 0..n}

ReplaceAt(seq, i, v) == [j \in 1..Len(seq) |-> IF j = i THEN v ELSE seq[j]]

ContentsLists ==
    SeqsUpTo(ConformingNodes, MaxItems)
    \cup {ReplaceAt(l, i, a) : l \in SeqsUpTo(ConformingNodes, MaxItems) \ {<<>>},
                               i \in 1..MaxItems, a \in DeviantNodes}

\* Contents lists in which two elements deviate.
TwoDeviants ==
    {<<PyStr("x"), PyDict(<< <<"level", PyInt(2)>>, <<"text", PyStr("t")>> >>)>>,
     <<HeadingObj(PyStr("abc"), PyInt(3), PyList(<<>>)), ContentObj(PyInt(2))>>}

DocumentObj(contents) == PyDict(<< <<"contents", PyList(contents)>> >>)

\* Top-level values that are no document object.
OtherValues ==
    {PyDict(<<>>), PyList(<<>>), PyStr("x"), PyInt(2), PyNone, PyFloat("nan"),
     PyDict(<< <<"contents", ContentObj(PyStr("x"))>> >>),
     PyDict(<< <<"extra", PyFloat("nan")>>, <<"contents", PyList(<<>>)>> >>),
     PyDict(<< <<"contents", PyList(<<>>)>>, <<"extra", PyStr("x")>> >>)}

ShortLists == {l \in ContentsLists : Len(l) <= 1}

Prose == <<"Hope", SP, "this", SP, "helps">>

Fenced(payload) == <<FENCE, "json", NL>> \o payload \o <<NL, FENCE>>

\* The payload with a fence line between its first n units and the rest.
SplitByFence(payload, n) ==
    <<FENCE, NL>> \o SubSeq(payload, 1, n) \o <<NL, FENCE, NL>>
        \o SubSeq(payload, n + 1, Len(payload)) \o <<NL, SP, FENCE, SP>>

Layouts(payload) ==
    {payload,
     Fenced(payload),
     <<SP, NL>> \o payload \o <<NL, NL>>,
     <<FENCE, "json", NL>> \o payload,
     <<FENCE, "json", SP>> \o payload \o <<NL, FENCE>>,
     Fenced(payload) \o <<NL>> \o Prose,
     payload \o <<NL>> \o Prose,
     Prose \o <<NL>> \o Fenced(payload),
     Fenced(payload) \o <<NL, FENCE, "text", NL, "note", NL, FENCE>>,
     SplitByFence(payload, Len(payload) \div 2),
     SubSeq(payload, 1, Len(payload) - 1),
     SubSeq(payload, 1, Len(payload) - 1) \o <<",", "}">>}

LLMTexts ==
    {Render(DocumentObj(l)) : l \in ContentsLists}
    \cup UNION {Layouts(Render(DocumentObj(l))) : l \in ShortLists}
    \cup UNION {Layouts(Render(v)) : v \in OtherValues}
    \cup {Render(DocumentObj(l)) : l \in TwoDeviants}
    \cup {<<>>, <<"not", SP, "json", SP, "at", SP, "all">>, <<FENCE>>}

(***************************************************************************)
(* run_with_dspy, one action per statement group.  Two invocations exist;  *)
(* each has its own arguments.                                             *)
(***************************************************************************)
Procs == {1, 2}

system_prompt(p) == IF p = 1 THEN "system prompt A" ELSE "system prompt B"

\* dspy.LM(model=llm, api_key=api_key, temperature=temperature, cache=False)
LM(p) == IF p = 1 THEN <<"model A", "0.2">> ELSE <<"model B", "0.9">>

Unset == <<"unset">>

StageOrder == <<"fence stripping", "parse", "validation", "serialization">>

Init ==
    /\ GenerateMarkdown_doc = "class docstring"
    /\ settings_lm = Unset
    /\ pc = [p \in Procs |-> "set_doc"]
    /\ generator = [p \in Procs |-> "none"]
    /\ sent = [p \in Procs |-> Unset]
    /\ result = [p \in Procs |-> <<>>]
    /\ markdown_json_str = [p \in Procs |-> <<>>]
    /\ markdown_dict = [p \in Procs |-> Unset]
    /\ document = [p \in Procs |-> Unset]
    /\ stdout = [p \in Procs |-> <<>>]
    /\ stderr = [p \in Procs |-> <<>>]
    /\ exit_code = [p \in Procs |-> -1]
    /\ stages = [p \in Procs |-> <<>>]
    /\ origin = [p \in Procs |-> "none"]

\* Line 47: GenerateMarkdown.__doc__ = system_prompt
SetDoc(p) ==
    /\ pc[p] = "set_doc"
    /\ GenerateMarkdown_doc' = system_prompt(p)
    /\ pc' = [pc EXCEPT ![p] = "configure"]
    /\ UNCHANGED <<settings_lm, generator, sent, result, markdown_json_str, markdown_dict,
                   document, stdout, stderr, exit_code, stages, origin>>

\* Lines 50-56: lm = dspy.LM(...); dspy.configure(lm=lm)
Configure(p) ==
    /\ pc[p] = "configure"
    /\ settings_lm' = LM(p)
    /\ pc' = [pc EXCEPT ![p] = "new_generator"]
    /\ UNCHANGED <<GenerateMarkdown_doc, generator, sent, result, markdown_json_str,
                   markdown_dict, document, stdout, stderr, exit_code, stages, origin>>

\* Line 59: MarkdownGenerator() builds ChainOfThought(GenerateMarkdown), which
\* copies the instructions the signature class holds at that moment.
NewGenerator(p) ==
    /\ pc[p] = "new_generator"
    /\ generator' = [generator EXCEPT ![p] = GenerateMarkdown_doc]
    /\ pc' = [pc EXCEPT ![p] = "call_llm"]
    /\ UNCHANGED <<GenerateMarkdown_doc, settings_lm, sent, result, markdown_json_str,
                   markdown_dict, document, stdout, stderr, exit_code, stages, origin>>

\* Line 64: result = generator(prompt=user_prompt).  The call goes to the LM the
\* settings hold at that moment, with the generator's instructions; text is
\* the answer.
Forward(p, text, from) ==
    /\ pc[p] = "call_llm"
    /\ sent' = [sent EXCEPT ![p] = <<generator[p], settings_lm>>]
    /\ result' = [result EXCEPT ![p] = text]
    /\ origin' = [origin EXCEPT ![p] = from]
    /\ pc' = [pc EXCEPT ![p] = "strip"]
    /\ UNCHANGED <<GenerateMarkdown_doc, settings_lm, generator, markdown_json_str,
                   markdown_dict, document, stdout, stderr, exit_code, stages>>

\* Lines 67-77: strip, and drop the fence lines.
StripStage(p) ==
    /\ pc[p] = "strip"
    /\ markdown_json_str' = [markdown_json_str EXCEPT ![p] = StripFences(result[p])]
    /\ stages' = [stages EXCEPT ![p] = Append(@, "fence stripping")]
    /\ pc' = [pc EXCEPT ![p] = "json_loads"]
    /\ UNCHANGED <<GenerateMarkdown_doc, settings_lm, generator, sent, result,
                   markdown_dict, document, stdout, stderr, exit_code, origin>>

\* Variant of OnJSONDecodeError: the messages are written, typer.Exit is not raised.
OnJSONDecodeErrorNoExit(p, e) ==
    /\ stderr' = [stderr EXCEPT ![p] = @ \o << <<"json parse failed", <<e[2], e[3]>> >>,
                                              <<"generated output", result[p]>> >>]
    /\ exit_code' = exit_code
    /\ pc' = [pc EXCEPT ![p] = "validate"]

\* Lines 89-92: except json.JSONDecodeError
OnJSONDecodeError(p, e) ==
    /\ stderr' = [stderr EXCEPT ![p] = @ \o << <<"json parse failed", <<e[2], e[3]>> >>,
                                              <<"generated output", result[p]>> >>]
    /\ exit_code' = [exit_code EXCEPT ![p] = 1]
    /\ pc' = [pc EXCEPT ![p] = "exit"]

\* Lines 93-95: except Exception
OnException(p, e) ==
    /\ stderr' = [stderr EXCEPT ![p] = Append(@, <<"error", e>>)]
    /\ exit_code' = [exit_code EXCEPT ![p] = 1]
    /\ pc' = [pc EXCEPT ![p] = "exit"]

\* Line 80: markdown_dict = json.loads(markdown_json_str)
JsonLoads(p) ==
    /\ pc[p] = "json_loads"
    /\ stages' = [stages EXCEPT ![p] = Append(@, "parse")]
    /\ \E r \in {json_loads(markdown_json_str[p])} :
           IF r[1] = "ok"
           THEN /\ markdown_dict' = [markdown_dict EXCEPT ![p] = r[2]]
                /\ pc' = [pc EXCEPT ![p] = "validate"]
                /\ UNCHANGED <<stderr, exit_code>>
           ELSE /\ OnJSONDecodeError(p, r)
                /\ UNCHANGED markdown_dict
    /\ UNCHANGED <<GenerateMarkdown_doc, settings_lm, generator, sent, result,
                   markdown_json_str, document, stdout, origin>>

\* Line 83: document = MarkdownDocument(**markdown_dict)
Validate(p) ==
    /\ pc[p] = "validate"
    /\ stages' = [stages EXCEPT ![p] = Append(@, "validation")]
    /\ \E r \in {MarkdownDocument(markdown_dict[p])} :
           IF r[1] = "ok"
           THEN /\ document' = [document EXCEPT ![p] = r[2]]
                /\ pc' = [pc EXCEPT ![p] = "dump"]
                /\ UNCHANGED <<stderr, exit_code>>
           ELSE /\ OnException(p, r)
                /\ UNCHANGED document
    /\ UNCHANGED <<GenerateMarkdown_doc, settings_lm, generator, sent, result,
                   markdown_json_str, markdown_dict, stdout, origin>>

\* Lines 86-87: output = document.model_dump_json(...); typer.echo(output)
Dump(p) ==
    /\ pc[p] = "dump"
    /\ stages' = [stages EXCEPT ![p] = Append(@, "serialization")]
    /\ stdout' = [stdout EXCEPT ![p] = @ \o model_dump_json(document[p]) \o <<NL>>]
    /\ exit_code' = [exit_code EXCEPT ![p] = 0]
    /\ pc' = [pc EXCEPT ![p] = "done"]
    /\ UNCHANGED <<GenerateMarkdown_doc, settings_lm, generator, sent, result,
                   markdown_json_str, markdown_dict, document, stderr, origin>>

Pipeline(p) == StripStage(p) \/ JsonLoads(p) \/ Validate(p) \/ Dump(p)

(***************************************************************************)
(* Spec: invocation 1 runs on any LLM text; once it has succeeded,         *)
(* invocation 2 runs on a text derived from what invocation 1 produced:    *)
(* its own output, bare or between fence lines, or its payload written    *)
(* again with the keys of every object in reverse order.                   *)
(***************************************************************************)
RECURSIVE ReverseKeys(_)
ReverseKeys(v) ==
    CASE TypeOf(v) = "dict" ->
            PyDict([i \in 1..Len(Payload(v)) |->
                      <<Payload(v)[Len(Payload(v)) + 1 - i][1],
                        ReverseKeys(Payload(v)[Len(Payload(v)) + 1 - i][2])>>])
      [] TypeOf(v) = "list" ->
            PyList([i \in 1..Len(Payload(v)) |-> ReverseKeys(Payload(v)[i])])
      [] OTHER -> v

Answer(p) == p = 1 /\ \E text \in LLMTexts : Forward(p, text, "llm")

AnswerWithOutput(p) == p = 2 /\ Forward(p, stdout[1], "output of 1")

\* The output of invocation 1 between an opening and a closing fence line.
AnswerWithFencedOutput(p) ==
    p = 2 /\ Forward(p, <<FENCE, "json", NL>> \o stdout[1] \o <<FENCE>>, "output of 1, fenced")

AnswerReordered(p) ==
    p = 2 /\ Forward(p, Render(ReverseKeys(markdown_dict[1])), "payload of 1, keys reversed")

Next ==
    \E p \in Procs :
        \/ (p = 1 \/ pc[1] = "done") /\ SetDoc(p)
        \/ Configure(p)
        \/ NewGenerator(p)
        \/ Answer(p)
        \/ AnswerWithOutput(p)
        \/ AnswerWithFencedOutput(p)
        \/ AnswerReordered(p)
        \/ Pipeline(p)

Spec == Init /\ [][Next]_vars

(***************************************************************************)
(* SpecConcurrent: the two invocations interleave statement by statement.  *)
(***************************************************************************)
ConcurrentTexts ==
    {Fenced(Render(DocumentObj(<<ContentObj(PyStr("x"))>>))),
     Render(DocumentObj(<<PyDict(<< <<"level", PyInt(2)>>, <<"text", PyStr("t")>> >>)>>)),
     <<"not", SP, "json", SP, "at", SP, "all">>}

AnswerAny(p) == \E text \in ConcurrentTexts : Forward(p, text, "llm")

NextConcurrent ==
    \E p \in Procs :
        SetDoc(p) \/ Configure(p) \/ NewGenerator(p) \/ AnswerAny(p) \/ Pipeline(p)

SpecConcurrent == Init /\ [][NextConcurrent]_vars

(***************************************************************************)
(* Definitions shared by the properties.                                   *)
(***************************************************************************)
Keys(obj) == {Payload(obj)[i][1] : i \in 1..Len(Payload(obj))}

IsObj(v) == TypeOf(v) = "dict"

HasTyped(obj, key, type) == Has(Payload(obj), key) /\ TypeOf(Get(Payload(obj), key)) = type

\* The contents list of the parsed payload of invocation p (empty when there is none).
ContentsOf(p) ==
    IF IsObj(markdown_dict[p]) /\ HasTyped(markdown_dict[p], "contents", "list")
    THEN Payload(Get(Payload(markdown_dict[p]), "contents"))
    ELSE <<>>

ChildrenOf(obj) == Payload(Get(Payload(obj), "children"))

Validated(p) == document[p] # Unset

\* The errors a failed schema validation reported.
ErrorsOf(p) ==
    IF pc[p] = "exit" /\ Len(stages[p]) = 3 /\ stderr[p][1][2][1] = "ValidationError"
    THEN stderr[p][1][2][2]
    ELSE {}

FencedLine(line) == startswith_fence(strip(line))

(***************************************************************************)
(* C1: when the trimmed LLM text begins with a fence marker, only the      *)
(* first line and the last line that are fence markers are removed; every  *)
(* interior line, also one that begins with a fence marker, is kept as it  *)
(* is and in order.                                                        *)
(***************************************************************************)
FirstAndLastFenceRemoved(raw) ==
    Only({IF ~startswith_fence(s) THEN s
          ELSE Only({join(SubSeq(lines, 2,
                                 IF Len(lines) > 1 /\ FencedLine(lines[Len(lines)])
                                 THEN Len(lines) - 1 ELSE Len(lines)))
                     : lines \in {split(s)}})
          : s \in {strip(raw)}})

C1_OnlyFirstAndLastFenceLineRemoved ==
    \A p \in Procs :
        Len(stages[p]) >= 1 => markdown_json_str[p] = FirstAndLastFenceRemoved(result[p])

(***************************************************************************)
(* C2: a node object that carries fields beyond those of the variant it is *)
(* resolved to is never accepted: whenever validation succeeds, every      *)
(* node object of the payload has only the fields of its variant.          *)
(***************************************************************************)
FieldsOf(inst) ==
    IF inst[1] = "Content" THEN {"content"} ELSE {"level", "text", "children"}

RECURSIVE NoExtraFields(_, _)
NoExtraFields(obj, inst) ==
    /\ Keys(obj) \subseteq FieldsOf(inst)
    /\ inst[1] = "Heading" =>
         \A j \in 1..Len(inst[4]) : NoExtraFields(ChildrenOf(obj)[j], inst[4][j])

C2_ExtraFieldsRejected ==
    \A p \in Procs :
        Validated(p) =>
            \A i \in 1..Len(document[p][2]) : NoExtraFields(ContentsOf(p)[i], document[p][2][i])

(***************************************************************************)
(* C3: on every failure, of either kind, what is written for the user      *)
(* contains the full original LLM text.                                    *)
(***************************************************************************)
C3_FailureShowsOriginalText ==
    \A p \in Procs :
        exit_code[p] = 1 =>
            \E i \in 1..Len(stderr[p]) :
                stderr[p][i][1] = "generated output" /\ stderr[p][i][2] = result[p]

(***************************************************************************)
(* C4: every text that after fence stripping is not well-formed JSON ends  *)
(* in the JSON parse error branch (exit code 1, no unhandled exception),   *)
(* with the message of the parser and the original text reported.          *)
(***************************************************************************)
C4_MalformedJsonIsParseError ==
    \A p \in Procs :
        (Len(stages[p]) >= 2 /\ ~WellFormedJSON(markdown_json_str[p])) =>
            /\ pc[p] = "exit"
            /\ exit_code[p] = 1
            /\ Len(stages[p]) = 2
            /\ Len(stderr[p]) = 2
            /\ stderr[p][1][1] = "json parse failed"
            /\ stderr[p][1][2] = <<json_loads(markdown_json_str[p])[2],
                                   json_loads(markdown_json_str[p])[3]>>
            /\ stderr[p][2] = <<"generated output", result[p]>>

\* What does hold: every text json.loads rejects ends in that branch.
RejectedJsonIsParseError ==
    \A p \in Procs :
        (Len(stages[p]) >= 2 /\ json_loads(markdown_json_str[p])[1] # "ok") =>
            /\ pc[p] = "exit"
            /\ exit_code[p] = 1
            /\ Len(stages[p]) = 2
            /\ stderr[p][1][1] = "json parse failed"
            /\ stderr[p][2] = <<"generated output", result[p]>>

(***************************************************************************)
(* C5: an object with only a string content resolves to Content; an object *)
(* with integer level, string text and a children list resolves to         *)
(* Heading; an object with level and text but neither children nor content *)
(* is rejected, and the error names the missing field children.            *)
(***************************************************************************)
OnlyContent(obj) == IsObj(obj) /\ Keys(obj) = {"content"} /\ HasTyped(obj, "content", "str")

RECURSIVE WellShaped(_)
WellShaped(obj) ==
    /\ IsObj(obj)
    /\ \/ OnlyContent(obj)
       \/ /\ Keys(obj) = {"level", "text", "children"}
          /\ HasTyped(obj, "level", "int")
          /\ HasTyped(obj, "text", "str")
          /\ HasTyped(obj, "children", "list")
          /\ \A j \in 1..Len(ChildrenOf(obj)) : WellShaped(ChildrenOf(obj)[j])

RECURSIVE ResolvesTo(_, _)
ResolvesTo(obj, inst) ==
    IF OnlyContent(obj)
    THEN inst = <<"Content", Payload(Get(Payload(obj), "content"))>>
    ELSE /\ inst[1] = "Heading"
         /\ inst[2] = Payload(Get(Payload(obj), "level"))
         /\ inst[3] = Payload(Get(Payload(obj), "text"))
         /\ Len(inst[4]) = Len(ChildrenOf(obj))
         /\ \A j \in 1..Len(inst[4]) : ResolvesTo(ChildrenOf(obj)[j], inst[4][j])

MissingChildren(obj) ==
    /\ IsObj(obj)
    /\ Has(Payload(obj), "level") /\ Has(Payload(obj), "text")
    /\ ~Has(Payload(obj), "children") /\ ~Has(Payload(obj), "content")

\* Every value in a contents or children position, with its location.
RECURSIVE NodesUnder(_, _)
NodesUnder(items, loc) ==
    UNION {{<<Append(loc, i - 1), items[i]>>}
           \cup (IF IsObj(items[i]) /\ ~Has(Payload(items[i]), "content")
                    /\ HasTyped(items[i], "children", "list")
                 THEN NodesUnder(ChildrenOf(items[i]),
                                 Append(loc, i - 1) \o <<"Heading", "children">>)
                 ELSE {})
           : i \in 1..Len(items)}

C5_VariantResolution ==
    \A p \in Procs :
        Len(stages[p]) >= 3 =>
            /\ (/\ IsObj(markdown_dict[p])
                /\ HasTyped(markdown_dict[p], "contents", "list")
                /\ \A i \in 1..Len(ContentsOf(p)) : WellShaped(ContentsOf(p)[i]))
               => /\ Validated(p)
                  /\ Len(document[p][2]) = Len(ContentsOf(p))
                  /\ \A i \in 1..Len(ContentsOf(p)) :
                        ResolvesTo(ContentsOf(p)[i], document[p][2][i])
            /\ \A n \in NodesUnder(ContentsOf(p), <<"contents">>) :
                  MissingChildren(n[2]) =>
                      /\ pc[p] = "exit"
                      /\ <<n[1] \o <<"Heading", "children">>, "missing">> \in ErrorsOf(p)

C5_Witness ==
    \E p \in Procs :
        /\ pc[p] = "exit"
        /\ \E i, j \in 1..Len(ContentsOf(p)) :
              /\ WellShaped(ContentsOf(p)[i])
              /\ MissingChildren(ContentsOf(p)[j])
              /\ <<<<"contents", j - 1, "Heading", "children">>, "missing">> \in ErrorsOf(p)

(***************************************************************************)
(* C6: a Heading is accepted only when its level is a JSON integer: every  *)
(* integer is accepted whatever its value, and a level that is a string, a *)
(* float or a boolean is rejected, not converted.                          *)
(***************************************************************************)
RECURSIVE LevelsWereIntegers(_, _)
LevelsWereIntegers(obj, inst) ==
    inst[1] = "Heading" =>
        /\ HasTyped(obj, "level", "int")
        /\ \A j \in 1..Len(inst[4]) : LevelsWereIntegers(ChildrenOf(obj)[j], inst[4][j])

C6_LevelMustBeJsonInteger ==
    \A p \in Procs :
        /\ Validated(p) =>
              \A i \in 1..Len(document[p][2]) :
                  LevelsWereIntegers(ContentsOf(p)[i], document[p][2][i])
        /\ \A n \in NodesUnder(ContentsOf(p), <<"contents">>) :
              (IsObj(n[2]) /\ HasTyped(n[2], "level", "int")) =>
                  ~\E e \in ErrorsOf(p) : e[1] = n[1] \o <<"Heading", "level">>

\* The part of C6 that holds: an integer level is never the cause of an error.
IntegerLevelNeverRejected ==
    \A p \in Procs :
        \A n \in NodesUnder(ContentsOf(p), <<"contents">>) :
            (IsObj(n[2]) /\ HasTyped(n[2], "level", "int")) =>
                ~\E e \in ErrorsOf(p) : e[1] = n[1] \o <<"Heading", "level">>

(***************************************************************************)
(* C7: round trip.  Running the pipeline on the serialization of a         *)
(* validated document succeeds and yields the same document, node for node *)
(* and in the same order at every depth.                                   *)
(***************************************************************************)
C7_RoundTrip ==
    (origin[2] = "output of 1" /\ pc[2] \in {"dump", "done", "exit"}) =>
        /\ pc[2] # "exit"
        /\ document[2] = document[1]

C7_Witness ==
    /\ origin[2] = "output of 1"
    /\ pc[2] = "done"
    /\ document[2] = document[1]
    /\ \E i \in 1..Len(document[1][2]) :
          /\ document[1][2][i][1] = "Heading"
          /\ \E j \in 1..Len(document[1][2][i][4]) : document[1][2][i][4][j][1] = "Heading"
    /\ \E i \in 1..Len(document[1][2]) : document[1][2][i] = <<"Content", "a\nb">>

(***************************************************************************)
(* C8: two interleaved invocations do not share state: the LLM call of     *)
(* each is made with its own system prompt and its own LM settings.        *)
(***************************************************************************)
C8_OwnPromptAndSettings ==
    \A p \in Procs : sent[p] # Unset => sent[p] = <<system_prompt(p), LM(p)>>

(***************************************************************************)
(* C9: the stages run in the order fence stripping, parse, validation,     *)
(* serialization; a stage runs only when the ones before it succeeded; a   *)
(* failed run ends with exit code 1 at the stage that failed, with nothing *)
(* on standard output; a document is written only after all four stages.   *)
(***************************************************************************)
IsPrefix(a, b) == Len(a) <= Len(b) /\ a = SubSeq(b, 1, Len(a))

C9_StagesInOrderShortCircuit ==
    \A p \in Procs :
        /\ IsPrefix(stages[p], StageOrder)
        /\ Len(stages[p]) >= 3 => markdown_dict[p] # Unset
        /\ pc[p] = "validate" => json_loads(markdown_json_str[p]) = <<"ok", markdown_dict[p]>>
        /\ Len(stages[p]) = 4 => document[p] # Unset
        /\ pc[p] = "dump" => MarkdownDocument(markdown_dict[p]) = <<"ok", document[p]>>
        /\ pc[p] = "exit" =>
              /\ exit_code[p] = 1
              /\ stdout[p] = <<>>
              /\ stderr[p] # <<>>
              /\ Len(stages[p]) \in {2, 3}
              /\ Len(stages[p]) = 2 => json_loads(markdown_json_str[p])[1] # "ok"
              /\ Len(stages[p]) = 3 => MarkdownDocument(markdown_dict[p])[1] # "ok"
        /\ exit_code[p] = 1 => pc[p] = "exit"
        /\ stdout[p] # <<>> =>
              /\ stages[p] = StageOrder
              /\ pc[p] = "done"
              /\ exit_code[p] = 0
              /\ stdout[p] = model_dump_json(document[p]) \o <<NL>>

C9_Witness ==
    \E p \in Procs :
        /\ pc[p] = "exit"
        /\ stages[p] = <<"fence stripping", "parse", "validation">>
        /\ startswith_fence(strip(result[p]))
        /\ stdout[p] = <<>>

(***************************************************************************)
(* C10: two texts that decode to the same logical document and differ only *)
(* in the order of the keys inside their objects give the same output.     *)
(***************************************************************************)
C10_KeyOrderIndependent ==
    (origin[2] = "payload of 1, keys reversed" /\ pc[2] \in {"done", "exit"}) =>
        /\ pc[2] = "done"
        /\ stdout[2] = stdout[1]

C10_Witness ==
    /\ origin[2] = "payload of 1, keys reversed"
    /\ pc[2] = "done"
    /\ markdown_dict[2] # markdown_dict[1]
    /\ stdout[2] = stdout[1]
    /\ \E i \in 1..Len(document[2][2]) : document[2][2][i][1] = "Heading"

(***************************************************************************)
(* C11: for every accepted input, the elements of contents and of every    *)
(* children list appear in the validated document and in the serialized    *)
(* output in the order they had in the input: none is dropped, duplicated  *)
(* or moved.                                                               *)
(***************************************************************************)
RECURSIVE CameFrom(_, _)
CameFrom(inst, obj) ==
    /\ IsObj(obj)
    /\ IF inst[1] = "Content"
       THEN HasTyped(obj, "content", "str") /\ inst[2] = Payload(Get(Payload(obj), "content"))
       ELSE /\ HasTyped(obj, "text", "str") /\ inst[3] = Payload(Get(Payload(obj), "text"))
            /\ HasTyped(obj, "level", "int") => inst[2] = Payload(Get(Payload(obj), "level"))
            /\ HasTyped(obj, "children", "list")
            /\ Len(inst[4]) = Len(ChildrenOf(obj))
            /\ \A j \in 1..Len(inst[4]) : CameFrom(inst[4][j], ChildrenOf(obj)[j])

\* The serialized output read back as a JSON value holds the instances in order.
WrittenInOrder(text, instances) ==
    \E out \in {json_loads(strip(text))} :
        /\ out[1] = "ok"
        /\ IsObj(out[2]) /\ Keys(out[2]) = {"contents"}
        /\ HasTyped(out[2], "contents", "list")
        /\ \E written \in {Payload(Get(Payload(out[2]), "contents"))} :
              /\ Len(written) = Len(instances)
              /\ \A i \in 1..Len(instances) :
                    WellShaped(written[i]) /\ ResolvesTo(written[i], instances[i])

\* Invocation p is the last one that received a text: what an invocation holds
\* does not change once the next one runs.
Latest(p) == p = 2 \/ origin[2] = "none"

C11_OrderPreserved ==
    \A p \in Procs :
        Latest(p) =>
            /\ Validated(p) =>
                  /\ Len(document[p][2]) = Len(ContentsOf(p))
                  /\ \A i \in 1..Len(ContentsOf(p)) :
                        CameFrom(document[p][2][i], ContentsOf(p)[i])
            /\ pc[p] = "done" => WrittenInOrder(stdout[p], document[p][2])

C11_Witness ==
    /\ pc[1] = "done" /\ origin[1] = "llm"
    /\ Len(ContentsOf(1)) = 2
    /\ ContentsOf(1)[1] # ContentsOf(1)[2]
    /\ document[1][2][1] # document[1][2][2]
    /\ \E i \in 1..2 :
          /\ document[1][2][i][1] = "Heading"
          /\ Len(document[1][2][i][4]) = 2
          /\ document[1][2][i][4][1] # document[1][2][i][4][2]
    /\ WrittenInOrder(stdout[1], document[1][2])

(***************************************************************************)
(* C12: when the LLM text is a valid document payload, fenced or not,      *)
(* followed by trailing prose, the pipeline recovers the payload and ends  *)
(* with the validated document instead of failing.                         *)
(***************************************************************************)
EndsWithProse(text) ==
    /\ Len(text) > Len(Prose) + 1
    /\ SubSeq(text, Len(text) - Len(Prose), Len(text)) = <<NL>> \o Prose

BeforeProse(text) == SubSeq(text, 1, Len(text) - Len(Prose) - 1)

\* The text between an opening fence line with a language tag and a closing one.
Unfenced(text) ==
    IF Len(text) > 5 /\ SubSeq(text, 1, 3) = <<FENCE, "json", NL>>
       /\ SubSeq(text, Len(text) - 1, Len(text)) = <<NL, FENCE>>
    THEN SubSeq(text, 4, Len(text) - 2)
    ELSE text

ValidPayload(text) ==
    \E r \in {json_loads(text)} : r[1] = "ok" /\ MarkdownDocument(r[2])[1] = "ok"

C12_TrailingProseRecovered ==
    \A p \in Procs :
        (/\ pc[p] \in {"done", "exit"}
         /\ EndsWithProse(result[p])
         /\ ValidPayload(Unfenced(BeforeProse(result[p]))))
        => /\ pc[p] = "done"
           /\ <<"ok", document[p]>>
                  = MarkdownDocument(json_loads(Unfenced(BeforeProse(result[p])))[2])

(***************************************************************************)
(* C13: every well-formed JSON value that does not conform to the document *)
(* model (a top-level array, string, number or null and an object without  *)
(* contents included) ends as a schema violation whose report gives a path *)
(* and a reason for each violation found, all of them together.            *)
(***************************************************************************)
Conforms(v) ==
    /\ IsObj(v)
    /\ Keys(v) = {"contents"}
    /\ HasTyped(v, "contents", "list")
    /\ \A i \in 1..Len(Payload(Get(Payload(v), "contents"))) :
          WellShaped(Payload(Get(Payload(v), "contents"))[i])

\* An element that no variant can accept.
Unusable(v) == ~IsObj(v) \/ MissingChildren(v)

\* The report gives a path and a reason for each violation.
ReportsEveryViolation(p) ==
    /\ ErrorsOf(p) # {}
    /\ \A e \in ErrorsOf(p) : Len(e[1]) > 0 /\ e[2] # ""
    /\ (IsObj(markdown_dict[p]) /\ ~Has(Payload(markdown_dict[p]), "contents"))
          => <<<<"contents">>, "missing">> \in ErrorsOf(p)
    /\ \A i \in 1..Len(ContentsOf(p)) :
          Unusable(ContentsOf(p)[i]) =>
              \E e \in ErrorsOf(p) : Len(e[1]) >= 2 /\ SubSeq(e[1], 1, 2) = <<"contents", i - 1>>

C13_NonConformingIsSchemaViolation ==
    \A p \in Procs :
        (/\ Len(stages[p]) >= 3
         /\ WellFormedJSON(markdown_json_str[p])
         /\ ~Conforms(markdown_dict[p]))
        => /\ pc[p] = "exit"
           /\ ReportsEveryViolation(p)

\* The part of C13 that holds: a rejected JSON object is reported with a path
\* and a reason for each violation.
RejectedObjectReportsEveryViolation ==
    \A p \in Procs :
        (pc[p] = "exit" /\ Len(stages[p]) = 3 /\ IsObj(markdown_dict[p]))
        => ReportsEveryViolation(p)

(***************************************************************************)
(* C14: the pipeline is idempotent on its own output: when it succeeded    *)
(* with output O, a run on O, bare or between one opening and one closing  *)
(* fence line, succeeds and writes exactly O.                              *)
(***************************************************************************)
C14_IdempotentOnOutput ==
    (origin[2] \in {"output of 1", "output of 1, fenced"} /\ pc[2] \in {"done", "exit"}) =>
        /\ pc[2] = "done"
        /\ stdout[2] = stdout[1]

C14_Witness ==
    /\ origin[2] = "output of 1, fenced"
    /\ pc[2] = "done"
    /\ stdout[2] = stdout[1]
    /\ strip(result[1]) # strip(stdout[1])
    /\ markdown_json_str[2] = strip(stdout[1])
    /\ \E i \in 1..Len(document[2][2]) :
          /\ document[2][2][i][1] = "Heading"
          /\ document[2][2][i][4] # <<>>

====
